---------------------------- MODULE Spec2Model ----------------------------
(***************************************************************************)
(* RockRawler (src/RockRawler.go): a colly based crawler.  main reads one  *)
(* seed URL per line and calls StartCrawler for each; StartCrawler builds  *)
(* an asynchronous colly collector whose OnHTML callbacks record every     *)
(* href / src / action through appendResult and isUnique.                  *)
(*                                                                         *)
(* Strings are sequences of one-character strings, so that prefix tests,   *)
(* URL parsing, reference resolution and the URL filter are computed on    *)
(* the characters as the code computes them.                               *)
(*                                                                         *)
(* The collector itself is github.com/gocolly/colly (v1 import path,       *)
(* line 24).  Its behaviour is modelled at the places where the program    *)
(* configures or calls it:                                                 *)
(*   - Collector.Visit scrapes with depth 1, Request.Visit with the depth  *)
(*     of the request plus one;                                            *)
(*   - requestCheck refuses a depth above MaxDepth only when MaxDepth > 0  *)
(*     (MaxDepth 0 is "infinite recursion"), refuses a URL that matches    *)
(*     none of the URLFilters, and refuses a URL already in the visited    *)
(*     store, which it otherwise marks;                                    *)
(*   - a nil AllowedDomains allows every domain;                           *)
(*   - with Async(true) every accepted request runs in its own goroutine;  *)
(*     the LimitRule semaphore is held around the HTTP round trip only,    *)
(*     the OnHTML callbacks of a response run afterwards in that           *)
(*     goroutine: all a[href] elements, then all script[src], then all     *)
(*     form[action], in registration order.                                *)
(*                                                                         *)
(* The -h flag goes through parseHeaders; the OnRequest callback sets the  *)
(* parsed headers with http.Header.Set, which canonicalises their names.   *)
(* CStartCrawler, the cgo export, copies the result of StartCrawler into   *)
(* an array obtained from C.malloc.                                        *)
(***************************************************************************)
EXTENDS Integers, Sequences, FiniteSets, TLC

(* ------------------------------ bounds --------------------------------- *)

\* number of lines main reads from stdin
MaxCrawls == 2

\* the -t flag ranges over 1..MaxThreads
MaxThreads == 2

\* the -d flag ranges over 0..MaxDepthFlag
MaxDepthFlag == 2

\* longest header string parseHeaders is applied to on its own
MaxHeaderLen == 5

(* ------------------------------ strings -------------------------------- *)

EmptyStr == << >>

HTTP == <<"h","t","t","p">>

SchemePrefix == <<"h","t","t","p",":","/","/">>

\* strings.HasPrefix
HasPrefix(s, p) ==
    /\ Len(p) <= Len(s)
    /\ SubSeq(s, 1, Len(p)) = p

HasSuffix(s, p) ==
    /\ Len(p) <= Len(s)
    /\ SubSeq(s, Len(s) - Len(p) + 1, Len(s)) = p

\* p occurs in s as a substring (strings.Contains, and an unanchored
\* regexp match of a literal)
Contains(s, p) ==
    \E i \in 1..(Len(s) - Len(p) + 1) : SubSeq(s, i, i + Len(p) - 1) = p

\* smallest index of a character of cs in s, or Len(s)+1 when there is none
IndexAny(s, cs) ==
    IF \E i \in 1..Len(s) : s[i] \in cs
    THEN CHOOSE i \in 1..Len(s) : s[i] \in cs /\ \A j \in 1..(i-1) : s[j] \notin cs
    ELSE Len(s) + 1

\* greatest index of a character of cs in s, or 0 when there is none
LastIndexAny(s, cs) ==
    IF \E i \in 1..Len(s) : s[i] \in cs
    THEN CHOOSE i \in 1..Len(s) : s[i] \in cs /\ \A j \in (i+1)..Len(s) : s[j] \notin cs
    ELSE 0

\* the elements of a sequence
Range(seq) == {seq[i] : i \in 1..Len(seq)}

Letters == {"a","b","c","d","e","h","i","j","k","l","m","o","p","q","s","t","x"}

Digits == {"0","1","2","3","4","5","6","7","8","9"}

\* characters net/url refuses in a host name
BadHostChars == {" "}

(* --------------------------- net/url, modelled ------------------------- *)

\* url.Parse, as far as the program depends on it: the fragment is cut at
\* the first '#', a scheme is a leading run of letters closed by ':', the
\* authority follows "//" and ends at the first '/' or '?', the port follows
\* the last ':' of the authority and must be decimal, and a host name with an
\* invalid character is an error.

\* s without its fragment
StripFragment(s) == SubSeq(s, 1, IndexAny(s, {"#"}) - 1)

\* index of the ':' that closes the scheme of s, 0 when s has no scheme
SchemeEnd(s) ==
    LET colon == IndexAny(s, {":"})
    IN  IF colon > 1 /\ colon <= Len(s) /\ (\A i \in 1..(colon - 1) : s[i] \in Letters)
        THEN colon
        ELSE 0

\* "missing protocol scheme": s starts with ':'
MissingScheme(s) == Len(s) >= 1 /\ s[1] = ":"

SchemeOf(s) == SubSeq(s, 1, SchemeEnd(s) - 1)

AfterScheme(s) == SubSeq(s, SchemeEnd(s) + 1, Len(s))

HasAuthority(rest) == HasPrefix(rest, <<"/","/">>)

AuthorityOf(rest) ==
    IF HasAuthority(rest)
    THEN SubSeq(rest, 3, IndexAny(SubSeq(rest, 3, Len(rest)), {"/","?"}) + 1)
    ELSE EmptyStr

PathOf(rest) ==
    IF HasAuthority(rest)
    THEN SubSeq(rest, IndexAny(SubSeq(rest, 3, Len(rest)), {"/","?"}) + 2, Len(rest))
    ELSE rest

\* u.Hostname(): the authority without its port
HostOf(authority) ==
    IF LastIndexAny(authority, {":"}) > 0
    THEN SubSeq(authority, 1, LastIndexAny(authority, {":"}) - 1)
    ELSE authority

PortOf(authority) ==
    IF LastIndexAny(authority, {":"}) > 0
    THEN SubSeq(authority, LastIndexAny(authority, {":"}) + 1, Len(authority))
    ELSE EmptyStr

\* the parts of a URL whose scheme is scheme, whose authority is authority
\* and whose remainder after the scheme is rest; missing says that the
\* scheme is missing
ParseParts(missing, scheme, rest, authority) ==
    [err       |-> \/ missing
                   \/ \E c \in Range(HostOf(authority)) : c \in BadHostChars
                   \/ \E c \in Range(PortOf(authority)) : c \notin Digits,
     scheme    |-> scheme,
     hasAuth   |-> HasAuthority(rest),
     authority |-> authority,
     host      |-> HostOf(authority),
     path      |-> PathOf(rest)]

ParseRest(missing, scheme, rest) == ParseParts(missing, scheme, rest, AuthorityOf(rest))

ParseNoFragment(s) == ParseRest(MissingScheme(s), SchemeOf(s), AfterScheme(s))

ParseURL(s) == ParseNoFragment(StripFragment(s))

ParseError(s) == ParseURL(s).err

\* extractHostname swallowing the parse error
extractHostname_NoErr(urlString) ==
    [err |-> FALSE, hostname |-> ParseURL(urlString).host]

\* extractHostname: url.Parse, then u.Hostname()
extractHostname(urlString) ==
    LET u == ParseURL(urlString)
    IN  [err |-> u.err, hostname |-> IF u.err THEN EmptyStr ELSE u.host]

\* scheme://authority of a parsed URL
Origin(b) == b.scheme \o <<":","/","/">> \o b.authority

\* the path of a parsed URL up to its last '/', "/" when it has none
Dir(b) ==
    IF LastIndexAny(b.path, {"/"}) = 0
    THEN <<"/">>
    ELSE SubSeq(b.path, 1, LastIndexAny(b.path, {"/"}))

\* url.ResolveReference of the parsed reference r against the parsed base b
Resolve(r, b) ==
    IF r.scheme # EmptyStr
    THEN r.scheme \o <<":">> \o (IF r.hasAuth THEN <<"/","/">> \o r.authority ELSE EmptyStr) \o r.path
    ELSE IF r.hasAuth
    THEN b.scheme \o <<":","/","/">> \o r.authority \o r.path
    ELSE IF HasPrefix(r.path, <<"/">>)
    THEN Origin(b) \o r.path
    ELSE Origin(b) \o Dir(b) \o r.path

\* colly Request.AbsoluteURL: "" for a fragment-only reference and for a
\* reference that does not parse; otherwise the reference resolved against
\* the URL of the page, without its fragment.
AbsoluteURL(link, base) ==
    IF HasPrefix(link, <<"#">>) THEN EmptyStr
    ELSE IF ParseError(link) THEN EmptyStr
    ELSE Resolve(ParseURL(link), ParseURL(base))

(* ---------------------------- parseHeaders ----------------------------- *)

\* characters strings.TrimSpace removes
SpaceChars == {" "}

\* strings.Index, counted from 1: where sep first occurs in s, 0 when it
\* does not occur
Index(s, sep) ==
    IF Contains(s, sep)
    THEN CHOOSE i \in 1..(Len(s) - Len(sep) + 1) :
            /\ SubSeq(s, i, i + Len(sep) - 1) = sep
            /\ \A j \in 1..(i - 1) : SubSeq(s, j, j + Len(sep) - 1) # sep
    ELSE 0

\* strings.Split(s, sep) for a non-empty sep
RECURSIVE Split(_, _)
Split(s, sep) ==
    IF Index(s, sep) = 0
    THEN << s >>
    ELSE << SubSeq(s, 1, Index(s, sep) - 1) >>
         \o Split(SubSeq(s, Index(s, sep) + Len(sep), Len(s)), sep)

\* strings.SplitN(s, sep, 2) of a string that contains sep
SplitN2(s, sep) ==
    << SubSeq(s, 1, Index(s, sep) - 1),
       SubSeq(s, Index(s, sep) + Len(sep), Len(s)) >>

\* strings.TrimSpace
TrimSpace(s) ==
    IF \A i \in 1..Len(s) : s[i] \in SpaceChars
    THEN EmptyStr
    ELSE SubSeq(s,
                CHOOSE i \in 1..Len(s) :
                    s[i] \notin SpaceChars /\ \A j \in 1..(i - 1) : s[j] \in SpaceChars,
                CHOOSE i \in 1..Len(s) :
                    s[i] \notin SpaceChars /\ \A j \in (i + 1)..Len(s) : s[j] \in SpaceChars)

\* make(map[string]string)
EmptyMap == [k \in {} |-> EmptyStr]

\* m[k] = v
MapSet(m, k, v) == [x \in (DOMAIN m) \cup {k} |-> IF x = k THEN v ELSE m[x]]

\* lines 138-146 always splitting at the first ':'
HeaderParts_FirstColon(header) == SplitN2(header, <<":">>)

\* lines 138-146: the two parts of a declaration that holds a ':'
HeaderParts(header) ==
    IF Contains(header, <<":"," ">>)
    THEN SplitN2(header, <<":"," ">>)
    ELSE SplitN2(header, <<":">>)

\* lines 135-151: the loop over the declarations, from declaration i on
RECURSIVE AddHeaders(_, _, _)
AddHeaders(decls, i, m) ==
    IF i > Len(decls)
    THEN m
    ELSE IF ~Contains(decls[i], <<":">>)
    THEN AddHeaders(decls, i + 1, m)
    ELSE AddHeaders(decls, i + 1,
                    MapSet(m, TrimSpace(HeaderParts(decls[i])[1]),
                              TrimSpace(HeaderParts(decls[i])[2])))

\* a nil map
NilHeaders == [isNil |-> TRUE, map |-> EmptyMap]

\* parseHeaders without the check of lines 128-130
parseHeaders_NoValidation(rawHeaders) ==
    [err |-> FALSE,
     headers |-> [isNil |-> FALSE,
                  map |-> IF rawHeaders = EmptyStr
                          THEN EmptyMap
                          ELSE AddHeaders(Split(rawHeaders, <<";",";">>), 1, EmptyMap)]]

\* parseHeaders, lines 123-154
parseHeaders(rawHeaders) ==
    IF rawHeaders # EmptyStr /\ ~Contains(rawHeaders, <<":">>)
    THEN [err |-> TRUE, headers |-> NilHeaders]
    ELSE [err |-> FALSE,
          headers |-> [isNil |-> FALSE,
                       map |-> IF rawHeaders = EmptyStr
                               THEN EmptyMap
                               ELSE AddHeaders(Split(rawHeaders, <<";",";">>), 1, EmptyMap)]]

(* ------------------------- net/http, modelled -------------------------- *)

\* the letters of the model in lower and upper case
CasePairs ==
    { <<"a","A">>, <<"b","B">>, <<"c","C">>, <<"d","D">>, <<"e","E">>, <<"h","H">>,
      <<"i","I">>, <<"j","J">>, <<"k","K">>, <<"l","L">>, <<"m","M">>, <<"o","O">>,
      <<"p","P">>, <<"q","Q">>, <<"s","S">>, <<"t","T">>, <<"x","X">> }

UpperOf(c) ==
    IF \E p \in CasePairs : p[1] = c
    THEN (CHOOSE p \in CasePairs : p[1] = c)[2]
    ELSE c

LowerOf(c) ==
    IF \E p \in CasePairs : p[2] = c
    THEN (CHOOSE p \in CasePairs : p[2] = c)[1]
    ELSE c

\* the characters of a header field name
TokenChars == {p[1] : p \in CasePairs} \cup {p[2] : p \in CasePairs} \cup Digits \cup {"-"}

\* textproto.CanonicalMIMEHeaderKey, applied by Header.Set: a name with a
\* character outside the token characters is left alone, otherwise the first
\* letter and every letter after '-' is made upper case, the others lower
CanonicalMIMEHeaderKey(k) ==
    IF \E i \in 1..Len(k) : k[i] \notin TokenChars
    THEN k
    ELSE [i \in 1..Len(k) |->
            IF i = 1 \/ k[i - 1] = "-" THEN UpperOf(k[i]) ELSE LowerOf(k[i])]

\* lines 94-100: the custom headers a request can leave with.  No callback
\* is registered for a nil map; otherwise the callback ranges over the map
\* in an unspecified order and Header.Set keeps the last value set for a
\* canonical name.
OnRequest(h) ==
    IF h.isNil
    THEN {EmptyMap}
    ELSE {f \in [{CanonicalMIMEHeaderKey(k) : k \in DOMAIN h.map} -> {h.map[k] : k \in DOMAIN h.map}] :
            \A c \in DOMAIN f :
                \E k \in DOMAIN h.map : CanonicalMIMEHeaderKey(k) = c /\ f[c] = h.map[k]}

(* ------------------------------ the web -------------------------------- *)

\* The pages the crawler can be pointed at.  Host a.b is a two-page site whose
\* pages link to each other; host c.d has a root page and an inner page that
\* both link to the subdomain s.c.d, whose page links to another host and
\* loads a script.
U_A == <<"h","t","t","p",":","/","/","a",".","b","/">>

U_B == <<"h","t","t","p",":","/","/","a",".","b","/","p">>

U_J == <<"h","t","t","p",":","/","/","a",".","b","/","j">>

\* a reference with a scheme and no host
MAILTO == <<"m","a","i","l","t","o",":","x">>

\* a reference url.Parse rejects (a space in the host name)
BADREF == <<"h","t","t","p",":","/","/","a"," ","b">>

U_R == <<"h","t","t","p",":","/","/","c",".","d","/">>

U_Q == <<"h","t","t","p",":","/","/","c",".","d","/","q">>

\* a subdomain of c.d
U_S == <<"h","t","t","p",":","/","/","s",".","c",".","d","/">>

U_K == <<"h","t","t","p",":","/","/","s",".","c",".","d","/","k">>

\* a host that ends with the characters of c.d without being a subdomain
U_N == <<"h","t","t","p",":","/","/","x","c",".","d","/">>

\* a host that continues after the characters of c.d
U_E == <<"h","t","t","p",":","/","/","c",".","d",".","e","/">>

NoLinks == << >>

Page(u) ==
    CASE u = U_A -> [a |-> << <<"/","p">> >>, script |-> NoLinks, form |-> NoLinks]
      [] u = U_B -> [a |-> << U_A, MAILTO >>, script |-> << <<"/","j">> >>, form |-> << <<"#">>, BADREF >>]
      [] u = U_R -> [a |-> << U_N, <<"/","q">>, U_S >>, script |-> NoLinks, form |-> NoLinks]
      [] u = U_Q -> [a |-> << U_S >>, script |-> NoLinks, form |-> NoLinks]
      [] u = U_S -> [a |-> << U_E >>, script |-> << <<"/","k">> >>, form |-> NoLinks]
      [] OTHER   -> [a |-> NoLinks, script |-> NoLinks, form |-> NoLinks]

\* URLs that answer with an HTML document (every other fetch fails)
HasPage(u) == u \in {U_A, U_B, U_R, U_Q, U_S}

\* the lines main can read from stdin: a seed without scheme, a seed with
\* scheme, and a line url.Parse rejects
SeedLines == { <<"a",".","b","/">>, U_R, <<"a"," ","b">> }

\* the values of the -h flag: the default, a string without colon, and one
\* header
HeaderFlags == { EmptyStr, <<"x">>, <<"a",":","b">> }

Tag(kind, links) == [i \in 1..Len(links) |-> [kind |-> kind, link |-> links[i]]]

\* The OnHTML callbacks of one response in the order colly runs them:
\* a[href] (line 77), script[src] (line 84), form[action] (line 89).
Elements(u) ==
    Tag("a", Page(u).a) \o Tag("script", Page(u).script) \o Tag("form", Page(u).form)

\* e.Request.AbsoluteURL(link) (line 170) for every element of every page
LinkTargets ==
    [u \in {U_A, U_B, U_R, U_Q, U_S} |->
        [i \in 1..Len(Elements(u)) |-> AbsoluteURL(Elements(u)[i].link, u)]]

(* ------------------------------- state --------------------------------- *)

VARIABLES
    flags,       \* the command line flags: threads, depth, subs, rawHeaders
    crawlNo,     \* number of stdin lines consumed
    mainpc,      \* position of the caller: "scan", "wait" (in c.Wait), "returned",
                 \* "creturned" (CStartCrawler has returned), "exit"; when
                 \* parseHeaders is called on its own: "parse", "parsed", "failed"
    url,         \* StartCrawler's url after the scheme fix
    headers,     \* StartCrawler's headers
    hostname,    \* StartCrawler's hostname
    results,     \* StartCrawler's results slice
    sm,          \* the package level sync.Map (its key set)
    visited,     \* the collector's visited store
    tasks,       \* the collector's fetch goroutines, keyed by request URL
    cArray,      \* the array CStartCrawler returns
    wins,        \* history: per URL, how often isUnique returned true in this crawl
    winOrder,    \* history: the URLs isUnique returned true for, in that order
    discovered   \* history: the URLs passed to isUnique in this crawl

vars == <<flags, crawlNo, mainpc, url, headers, hostname, results, sm, visited, tasks,
          cArray, wins, winOrder, discovered>>

NoTasks == [u \in {} |-> 0]

Init ==
    /\ flags \in [threads : 1..MaxThreads, depth : 0..MaxDepthFlag, subs : BOOLEAN,
                  rawHeaders : HeaderFlags]
    /\ crawlNo = 0
    /\ mainpc = "scan"
    /\ url = EmptyStr
    /\ headers = NilHeaders
    /\ hostname = EmptyStr
    /\ results = << >>
    /\ sm = {}
    /\ visited = {}
    /\ tasks = NoTasks
    /\ cArray = << >>
    /\ wins = NoTasks
    /\ winOrder = << >>
    /\ discovered = {}

(* ------------------------- the collector, modelled --------------------- *)

\* The URL filter of line 70, ".*(\.|\/\/)" + host with dots escaped +
\* "((#|\/|\?).*)?", matched by colly with Regexp.Match, which is not
\* anchored: the trailing group is optional, so the filter matches exactly
\* when the URL contains "." + host or "//" + host.
URLFilterMatch(u, host) ==
    \/ Contains(u, <<".">> \o host)
    \/ Contains(u, <<"/","/">> \o host)

\* requestCheck refusing one level too late
ErrMaxDepth_OffByOne(maxDepth, d) == maxDepth > 0 /\ maxDepth + 1 < d

\* colly.MaxDepth(depth), line 61: requestCheck's "MaxDepth > 0 && MaxDepth < depth"
ErrMaxDepth(maxDepth, d) == maxDepth > 0 /\ maxDepth < d

\* lines 68-71: URLFilters is set only with -subs
ErrNoURLFiltersMatch(u, host) == flags.subs /\ ~URLFilterMatch(u, host)

\* colly.AllowedDomains(hostname), line 58, cleared by line 69 with -subs
isDomainAllowed(domain, host) == flags.subs \/ domain = host

\* a semaphore with one slot too many
Parallelism_OneMore == flags.threads + 1

\* c.Limit, line 74: the semaphore has max(1, Parallelism) slots
Parallelism == IF flags.threads > 1 THEN flags.threads ELSE 1

\* depth of the request made by Collector.Visit (line 108)
SeedDepth == 1

\* Request.Visit keeping the depth of the page
ChildDepth_Same(d) == d

\* depth of the request made by Request.Visit from a page of depth d (line 80)
ChildDepth(d) == d + 1

\* colly scrape: requestCheck (which marks the URL visited), then the domain
\* check, then the fetch goroutine is started.
Scrape(u, d, vis, host) ==
    LET checked == /\ u # EmptyStr
                   /\ ~ErrMaxDepth(flags.depth, d)
                   /\ ~ErrNoURLFiltersMatch(u, host)
                   /\ u \notin vis
    IN  [visited |-> IF checked THEN vis \cup {u} ELSE vis,
         spawn   |-> checked /\ isDomainAllowed(ParseURL(u).host, host)]

\* a fetch goroutine: the depth of its request, its position, the element
\* whose callback runs, appendResult's result and whether it was appended,
\* the slice append has read, the outcome of the fetch, and the custom
\* headers of the request
NewTask(d) ==
    [depth |-> d, pc |-> "queued", idx |-> 0, res |-> EmptyStr, app |-> FALSE,
     snap |-> << >>, got |-> "pending", hdr |-> EmptyMap]

\* tasks with one more goroutine
Spawn(ts, u, d) == [v \in (DOMAIN ts) \cup {u} |-> IF v = u THEN NewTask(d) ELSE ts[v]]

\* the goroutine of u moves on to its next element, or finishes (wg.Done)
NextElem(u, t) ==
    IF t.idx < Len(Elements(u))
    THEN [t EXCEPT !.pc = "load", !.idx = t.idx + 1, !.res = EmptyStr, !.app = FALSE, !.snap = << >>]
    ELSE [t EXCEPT !.pc = "done", !.res = EmptyStr, !.app = FALSE, !.snap = << >>]

\* the a[href] callback calling Visit only for a link appendResult appended
AfterAppend_VisitIfAppended(u, t) ==
    IF Elements(u)[t.idx].kind = "a" /\ t.app
    THEN [t EXCEPT !.pc = "visit", !.snap = << >>]
    ELSE NextElem(u, t)

\* after appendResult: the a[href] callback goes on to e.Request.Visit (line 80),
\* the script and form callbacks return (lines 85, 90)
AfterAppend(u, t) ==
    IF Elements(u)[t.idx].kind = "a"
    THEN [t EXCEPT !.pc = "visit", !.snap = << >>]
    ELSE NextElem(u, t)

InFlight == {u \in DOMAIN tasks : tasks[u].pc = "inflight"}

\* a failed fetch put back in the queue
Failed_Retried(t) == [t EXCEPT !.pc = "queued", !.got = "error"]

\* a fetch that fails (error, status, content type): no OnHTML callback
\* runs, no OnError callback is registered, the goroutine ends with wg.Done
Failed(t) == [t EXCEPT !.pc = "done", !.got = "error"]

\* appendResult keeping every result
Dropped_Never(result) == FALSE

\* line 172: appendResult drops the result ""
Dropped(result) == result = EmptyStr

\* c.Wait() returning at once
WaitDone_NoWait == TRUE

\* line 111: c.Wait() returns when every fetch goroutine has called wg.Done
WaitDone == \A u \in DOMAIN tasks : tasks[u].pc = "done"

(* ------------------------------ cgo, modelled -------------------------- *)

\* C.CString(link): a pointer to a copy of the characters of link
CString(link) == [kind |-> "str", val |-> link]

NullPtr == [kind |-> "null", val |-> EmptyStr]

\* a pointer value that is neither NULL nor one of the strings
WildPtr == [kind |-> "wild", val |-> EmptyStr]

\* C.malloc does not initialise the memory it returns: a slot nothing was
\* written to holds whatever the allocator left there
Uninitialised == {NullPtr, WildPtr}

(* ------------------------------ actions -------------------------------- *)

\* main, lines 233-235, and StartCrawler, lines 30-108: the scheme fix, the
\* host name, the early return, the new collector and c.Visit(url).  The
\* package level map sm is not touched.  Line 33 keeps parseHeaders' map and
\* discards its error.
StartCrawler(line) ==
    /\ mainpc = "scan"
    /\ crawlNo < MaxCrawls
    /\ LET u1 == IF ~HasPrefix(line, HTTP) THEN SchemePrefix \o line ELSE line
           h  == extractHostname(u1)
           sc == Scrape(u1, SeedDepth, {}, h.hostname)
       IN  /\ url' = u1
           /\ headers' = parseHeaders(flags.rawHeaders).headers
           /\ hostname' = h.hostname
           /\ results' = << >>
           /\ IF h.err
              THEN /\ mainpc' = "returned"
                   /\ visited' = {}
                   /\ tasks' = NoTasks
              ELSE /\ mainpc' = "wait"
                   /\ visited' = sc.visited
                   /\ tasks' = IF sc.spawn THEN Spawn(NoTasks, u1, SeedDepth) ELSE NoTasks
    /\ crawlNo' = crawlNo + 1
    /\ cArray' = << >>
    /\ wins' = NoTasks
    /\ winOrder' = << >>
    /\ discovered' = {}
    /\ UNCHANGED <<flags, sm>>

\* the fetch goroutine runs the OnRequest callback (lines 94-100), takes a
\* slot of the LimitRule semaphore and sends its request (line 74)
Acquire(u) ==
    /\ mainpc = "wait"
    /\ u \in DOMAIN tasks
    /\ tasks[u].pc = "queued"
    /\ Cardinality(InFlight) < Parallelism
    /\ \E f \in OnRequest(headers) :
          tasks' = [tasks EXCEPT ![u].pc = "inflight", ![u].hdr = f]
    /\ UNCHANGED <<flags, headers, cArray, winOrder, crawlNo, mainpc, url, hostname, results, sm, visited, wins, discovered>>

\* the round trip ends and the slot is released: an HTML document starts the
\* OnHTML callbacks, anything else (error, status, content type) ends the
\* goroutine
Respond(u, ok) ==
    /\ mainpc = "wait"
    /\ u \in DOMAIN tasks
    /\ tasks[u].pc = "inflight"
    /\ ok => HasPage(u)
    /\ tasks' = [tasks EXCEPT ![u] =
                    IF ok
                    THEN NextElem(u, [tasks[u] EXCEPT !.got = "html"])
                    ELSE Failed(tasks[u])]
    /\ UNCHANGED <<flags, headers, cArray, winOrder, crawlNo, mainpc, url, hostname, results, sm, visited, wins, discovered>>

\* appendResult lines 170-172 and isUnique lines 182-185: resolve the link,
\* drop "", sm.Load
Load(u) ==
    /\ mainpc = "wait"
    /\ u \in DOMAIN tasks
    /\ tasks[u].pc = "load"
    /\ LET t      == tasks[u]
           result == LinkTargets[u][t.idx]
       IN  IF Dropped(result)
           THEN /\ tasks' = [tasks EXCEPT ![u] = AfterAppend(u, t)]
                /\ UNCHANGED discovered
           ELSE /\ discovered' = discovered \cup {result}
                /\ tasks' = [tasks EXCEPT ![u] =
                                IF result \in sm
                                THEN AfterAppend(u, t)
                                ELSE [t EXCEPT !.pc = "store", !.res = result]]
    /\ UNCHANGED <<flags, headers, cArray, winOrder, crawlNo, mainpc, url, hostname, results, sm, visited, wins>>

\* isUnique lines 187-188: sm.Store, return true
Store(u) ==
    /\ mainpc = "wait"
    /\ u \in DOMAIN tasks
    /\ tasks[u].pc = "store"
    /\ LET r == tasks[u].res
       IN  /\ sm' = sm \cup {r}
           /\ wins' = [v \in (DOMAIN wins) \cup {r} |->
                          IF v \in DOMAIN wins
                          THEN (IF v = r THEN wins[v] + 1 ELSE wins[v])
                          ELSE 1]
    /\ winOrder' = Append(winOrder, tasks[u].res)
    /\ tasks' = [tasks EXCEPT ![u].pc = "read"]
    /\ UNCHANGED <<flags, headers, cArray, crawlNo, mainpc, url, hostname, results, visited, discovered>>

\* line 175, first half: append reads the slice *results.  The slice is
\* shared by all callback goroutines without synchronisation.
AppendRead(u) ==
    /\ mainpc = "wait"
    /\ u \in DOMAIN tasks
    /\ tasks[u].pc = "read"
    /\ tasks' = [tasks EXCEPT ![u].pc = "write", ![u].snap = results]
    /\ UNCHANGED <<flags, headers, cArray, winOrder, crawlNo, mainpc, url, hostname, results, sm, visited, wins, discovered>>

\* line 175, second half: the slice read earlier, extended by the result, is
\* written back to *results
AppendWrite(u) ==
    /\ mainpc = "wait"
    /\ u \in DOMAIN tasks
    /\ tasks[u].pc = "write"
    /\ results' = Append(tasks[u].snap, tasks[u].res)
    /\ tasks' = [tasks EXCEPT ![u] = AfterAppend(u, [tasks[u] EXCEPT !.app = TRUE])]
    /\ UNCHANGED <<flags, headers, cArray, winOrder, crawlNo, mainpc, url, hostname, sm, visited, wins, discovered>>

\* line 80: e.Request.Visit(link), for every a[href], whatever appendResult did
RequestVisit(u) ==
    /\ mainpc = "wait"
    /\ u \in DOMAIN tasks
    /\ tasks[u].pc = "visit"
    /\ LET t      == tasks[u]
           target == LinkTargets[u][t.idx]
           sc     == Scrape(target, ChildDepth(t.depth), visited, hostname)
           moved  == [tasks EXCEPT ![u] = NextElem(u, t)]
       IN  /\ visited' = sc.visited
           /\ tasks' = IF sc.spawn THEN Spawn(moved, target, ChildDepth(t.depth)) ELSE moved
    /\ UNCHANGED <<flags, headers, cArray, winOrder, crawlNo, mainpc, url, hostname, results, sm, wins, discovered>>

\* lines 111-113: c.Wait() returns when every fetch goroutine is done
Return ==
    /\ mainpc = "wait"
    /\ WaitDone
    /\ mainpc' = "returned"
    /\ UNCHANGED <<flags, headers, cArray, winOrder, crawlNo, url, hostname, results, sm, visited, tasks, wins, discovered>>

\* line 236: printResults, back to s.Scan()
PrintResults ==
    /\ mainpc = "returned"
    /\ mainpc' = "scan"
    /\ UNCHANGED <<flags, headers, cArray, winOrder, crawlNo, url, hostname, results, sm, visited, tasks, wins, discovered>>

\* CStartCrawler, lines 199-211, after its call of StartCrawler (line 196)
\* has returned: an array of len(results)+1 pointers is allocated, the first
\* len(results) slots are set, the array is returned.  Nothing is written
\* to the last slot.
CStartCrawler(last) ==
    /\ mainpc = "returned"
    /\ cArray' = [i \in 1..(Len(results) + 1) |->
                    IF i <= Len(results) THEN CString(results[i]) ELSE last]
    /\ mainpc' = "creturned"
    /\ UNCHANGED <<flags, headers, winOrder, crawlNo, url, hostname, results, sm, visited, tasks, wins, discovered>>

\* the C caller has read the array and may call CStartCrawler again
CallerResumes ==
    /\ mainpc = "creturned"
    /\ cArray' = << >>
    /\ mainpc' = "scan"
    /\ UNCHANGED <<flags, headers, winOrder, crawlNo, url, hostname, results, sm, visited, tasks, wins, discovered>>

\* line 233: s.Scan() reports the end of stdin
EndOfInput ==
    /\ mainpc = "scan"
    /\ crawlNo = MaxCrawls
    /\ mainpc' = "exit"
    /\ UNCHANGED <<flags, headers, cArray, winOrder, crawlNo, url, hostname, results, sm, visited, tasks, wins, discovered>>

Next ==
    \/ \E line \in SeedLines : StartCrawler(line)
    \/ \E u \in DOMAIN tasks : Acquire(u)
    \/ \E u \in DOMAIN tasks, ok \in BOOLEAN : Respond(u, ok)
    \/ \E u \in DOMAIN tasks : Load(u)
    \/ \E u \in DOMAIN tasks : Store(u)
    \/ \E u \in DOMAIN tasks : AppendRead(u)
    \/ \E u \in DOMAIN tasks : AppendWrite(u)
    \/ \E u \in DOMAIN tasks : RequestVisit(u)
    \/ Return
    \/ PrintResults
    \/ \E last \in Uninitialised : CStartCrawler(last)
    \/ CallerResumes
    \/ EndOfInput

Spec == Init /\ [][Next]_vars

\* some step of Next can be taken (ENABLED <<Next>>_vars, written out action
\* by action): main is not blocked, or c.Wait() can return, or a goroutine is
\* past its round trip or in it, or a queued goroutine finds a free slot
CanStep ==
    \/ mainpc \in {"scan", "returned", "creturned"}
    \/ /\ mainpc = "wait"
       /\ \/ WaitDone
          \/ \E u \in DOMAIN tasks : tasks[u].pc \notin {"queued", "done"}
          \/ /\ \E u \in DOMAIN tasks : tasks[u].pc = "queued"
             /\ Cardinality(InFlight) < Parallelism

\* The Go scheduler runs a goroutine that can run, an HTTP round trip ends
\* (the collector's requests time out), and main goes on when c.Wait()
\* returns: while a step can be taken, a step is eventually taken.  This is
\* weak fairness of Next, with its enabling condition written out; every
\* step that changes the state is a step of Next.
FairSpec == Spec /\ ([]<>(~CanStep) \/ []<><<TRUE>>_vars)

(* ------------------------ parseHeaders on its own ---------------------- *)

\* the characters parseHeaders tells apart, and one other
HeaderAlphabet == {"a", ":", " ", ";"}

\* the example of the usage text, line 219, with short values
CookieExample ==
    <<"C","o","o","k","i","e",":"," ","a","=","b",";",";",
      "R","e","f","e","r","e","r",":"," ","h","t","t","p",":","/","/","x","/">>

\* every string of at most MaxHeaderLen characters, and the example
HeaderInputs ==
    UNION {[1..n -> HeaderAlphabet] : n \in 0..MaxHeaderLen} \cup {CookieExample}

InitParseHeaders ==
    /\ flags \in [threads : {1}, depth : {0}, subs : {FALSE}, rawHeaders : HeaderInputs]
    /\ crawlNo = 0
    /\ mainpc = "parse"
    /\ url = EmptyStr
    /\ headers = NilHeaders
    /\ hostname = EmptyStr
    /\ results = << >>
    /\ sm = {}
    /\ visited = {}
    /\ tasks = NoTasks
    /\ cArray = << >>
    /\ wins = NoTasks
    /\ winOrder = << >>
    /\ discovered = {}

\* line 33: headers, err := parseHeaders(rawHeaders)
CallParseHeaders ==
    /\ mainpc = "parse"
    /\ headers' = parseHeaders(flags.rawHeaders).headers
    /\ mainpc' = IF parseHeaders(flags.rawHeaders).err THEN "failed" ELSE "parsed"
    /\ UNCHANGED <<flags, cArray, winOrder, crawlNo, url, hostname, results, sm, visited, tasks, wins, discovered>>

NextParseHeaders == CallParseHeaders

SpecParseHeaders == InitParseHeaders /\ [][NextParseHeaders]_vars

(* ------------------------------ properties ----------------------------- *)

NoDuplicates(seq) == \A i, j \in 1..Len(seq) : i # j => seq[i] # seq[j]

\* number of isUnique calls of this crawl that returned true for r
Wins(r) == IF r \in DOMAIN wins THEN wins[r] ELSE 0

\* an isUnique call on r has loaded and not yet stored
Pending(r) == \E u \in DOMAIN tasks : tasks[u].pc = "store" /\ tasks[u].res = r

\* C1: the list StartCrawler returns contains no string twice.
C1_ReturnedListUnique ==
    mainpc = "returned" => NoDuplicates(results)

\* C2: isUnique is a test-and-set: of the calls made on a URL the map had not
\* seen (the map is empty when the first crawl starts), exactly one returns
\* true, once every call on that URL has returned.
C2_ExactlyOneTrue ==
    crawlNo = 1 =>
        \A r \in discovered : ~Pending(r) => Wins(r) = 1

\* C3: each StartCrawler invocation starts with an empty VisitedSet, so during
\* a crawl the set holds nothing but the URLs this crawl passed to isUnique.
C3_FreshVisitedSet ==
    mainpc \in {"wait", "returned"} => sm \subseteq discovered

\* the absolute URLs of the links of page u, "" left out
PageLinks(u) ==
    IF HasPage(u)
    THEN {LinkTargets[u][i] : i \in 1..Len(Elements(u))} \ {EmptyStr}
    ELSE {}

\* the callback of element i of page u has run to its end
Processed(u, i) ==
    /\ tasks[u].got = "html"
    /\ i < tasks[u].idx \/ tasks[u].pc = "done"

\* the a[href] elements of the fetched pages whose callback has run
ProcessedAnchors ==
    {p \in UNION {{<<u, i>> : i \in 1..Len(Elements(u))} : u \in DOMAIN tasks} :
        /\ Elements(p[1])[p[2]].kind = "a"
        /\ Processed(p[1], p[2])}

\* the absolute URL of element p[2] of the fetched page p[1]
Target(p) == LinkTargets[p[1]][p[2]]

Crawling == mainpc \in {"wait", "returned"}

\* C4 as stated: with maxDepth = 0 only the seed page is fetched and the
\* result holds only links of the seed page.
C4_DepthZeroSeedOnly ==
    (Crawling /\ flags.depth = 0) =>
        /\ DOMAIN tasks \subseteq {url}
        /\ Range(results) \subseteq PageLinks(url)

\* C4 amended: with maxDepth = 1 only the seed page is fetched, no link found
\* on it is fetched, and the result holds only links of the seed page.
C4_DepthOneSeedOnly ==
    (Crawling /\ flags.depth = 1) =>
        /\ DOMAIN tasks \subseteq {url}
        /\ Range(results) \subseteq PageLinks(url)

\* a crawl of c.d with -d 1 has returned the links of the root page, and the
\* in-scope page /q they name was not fetched
C4_Witness ==
    /\ mainpc = "returned"
    /\ flags.depth = 1
    /\ url = U_R
    /\ U_Q \in Range(results)
    /\ U_Q \notin DOMAIN tasks

\* the scope the collector is configured with (lines 58, 68-71)
Allowed(u) ==
    /\ ~ErrNoURLFiltersMatch(u, hostname)
    /\ isDomainAllowed(ParseURL(u).host, hostname)

\* C5 as stated: the seed page is depth 0 and a link is one deeper than its
\* page; an in-scope link at depth d is fetched if d <= maxDepth and never
\* fetched if d > maxDepth.
C5_SeedDepthZeroRule ==
    Crawling =>
        /\ \A u \in DOMAIN tasks : tasks[u].depth - 1 <= flags.depth
        /\ \A p \in ProcessedAnchors :
              (/\ Target(p) # EmptyStr
               /\ Allowed(Target(p))
               /\ (tasks[p[1]].depth - 1) + 1 <= flags.depth)
              => Target(p) \in DOMAIN tasks

\* C5 amended: the seed page is depth 1 and a followed link is one deeper than
\* a page it was found on; an in-scope link at depth d has a fetch started
\* (by this Visit or an earlier one) if maxDepth = 0 or d <= maxDepth, no
\* page of depth d > maxDepth is fetched when maxDepth > 0, and every started
\* fetch has been sent when StartCrawler returns.
C5_SeedDepthOneRule ==
    Crawling =>
        /\ \A u \in DOMAIN tasks :
              IF u = url
              THEN tasks[u].depth = 1
              ELSE \E p \in ProcessedAnchors :
                      /\ Target(p) = u
                      /\ tasks[u].depth = tasks[p[1]].depth + 1
        /\ flags.depth > 0 => \A u \in DOMAIN tasks : tasks[u].depth <= flags.depth
        /\ \A p \in ProcessedAnchors :
              (/\ Target(p) # EmptyStr
               /\ Allowed(Target(p))
               /\ (flags.depth = 0 \/ tasks[p[1]].depth + 1 <= flags.depth))
              => Target(p) \in DOMAIN tasks
        /\ mainpc = "returned" => \A u \in DOMAIN tasks : tasks[u].got # "pending"

\* a crawl of c.d with -subs -d 2 has returned: the root page (depth 1), /q
\* and the subdomain page (depth 2) were fetched; the link of the subdomain
\* page that the filter accepts (depth 3) was recorded and not fetched
C5_Witness ==
    /\ mainpc = "returned"
    /\ flags.depth = 2
    /\ flags.subs
    /\ url = U_R
    /\ {U_R, U_Q, U_S} \subseteq DOMAIN tasks
    /\ tasks[U_S].depth = 2
    /\ tasks[U_S].got = "html"
    /\ Allowed(U_E)
    /\ U_E \in Range(results)
    /\ U_E \notin DOMAIN tasks

\* the scope policy of the specification: the seed host itself, or a host
\* that ends with "." followed by the seed host
HostInScope(host, seedHost) ==
    \/ host = seedHost
    \/ HasSuffix(host, <<".">> \o seedHost)

\* no request of this crawl goes to a host other than the seed's
OnlySeedHostFetched ==
    \A u \in DOMAIN tasks : ParseURL(u).host = hostname

\* C6: without -subs no request is issued to a host other than the seed's,
\* and an href to another host found on a fetched page is in the returned
\* list.
C6_ExactHostScope ==
    (Crawling /\ ~flags.subs) =>
        /\ OnlySeedHostFetched
        /\ mainpc = "returned" =>
              \A p \in ProcessedAnchors :
                  (Target(p) # EmptyStr /\ ParseURL(Target(p)).host # hostname)
                  => Target(p) \in Range(results)

\* C7: with -subs a discovered URL may be fetched if and only if its host is
\* the seed host or ends with "." + seed host: no request goes to another
\* host, and a link to such a host, within the depth limit, is fetched.
C7_SubdomainScope ==
    (Crawling /\ flags.subs) =>
        /\ \A u \in DOMAIN tasks : HostInScope(ParseURL(u).host, hostname)
        /\ \A p \in ProcessedAnchors :
              (/\ Target(p) # EmptyStr
               /\ HostInScope(ParseURL(Target(p)).host, hostname)
               /\ ~ErrMaxDepth(flags.depth, tasks[p[1]].depth + 1))
              => Target(p) \in DOMAIN tasks

Count(seq, x) == Cardinality({i \in 1..Len(seq) : seq[i] = x})

\* C8: for the two-page site a.b, whose pages link to each other, crawled
\* with -d 2 -t 1 and both pages served, the returned list holds every link
\* of the two pages exactly once, and nothing else.
C8_TwoPageCycle ==
    (/\ mainpc = "returned"
     /\ url = U_A
     /\ flags.depth = 2
     /\ flags.threads = 1
     /\ \A u \in DOMAIN tasks : tasks[u].got = "html")
    => /\ DOMAIN tasks = {U_A, U_B}
       /\ Range(results) = PageLinks(U_A) \cup PageLinks(U_B)
       /\ \A r \in PageLinks(U_A) \cup PageLinks(U_B) : Count(results, r) = 1

\* C9: at every moment the number of requests in flight is at most threads.
C9_InFlightBound ==
    Cardinality(InFlight) <= flags.threads

\* every slot is taken and another fetch goroutine waits for one
C9_Witness ==
    /\ Cardinality(InFlight) = flags.threads
    /\ \E u \in DOMAIN tasks : tasks[u].pc = "queued"

Malformed(rawHeaders) == rawHeaders # EmptyStr /\ ~Contains(rawHeaders, <<":">>)

\* C11: when the header string is non-empty and holds no colon, parseHeaders
\* fails (StartCrawler is left with the nil map), the error changes nothing
\* else: the seed request is made as for any seed that parses, every request
\* leaves without custom header, and at the return every started fetch was
\* sent.
C11_MalformedHeadersIgnored ==
    (crawlNo > 0 /\ Malformed(flags.rawHeaders)) =>
        /\ headers.isNil
        /\ \A u \in DOMAIN tasks : tasks[u].hdr = EmptyMap
        /\ ~ParseURL(url).err => url \in visited
        /\ mainpc = "returned" => \A u \in DOMAIN tasks : tasks[u].got # "pending"

\* a crawl with the header string "x" has fetched pages, recorded links and
\* returned
C11_Witness ==
    /\ mainpc = "returned"
    /\ Malformed(flags.rawHeaders)
    /\ results # << >>
    /\ \E u \in DOMAIN tasks : u # url /\ tasks[u].got = "html"

\* the places of s where a separator ";;" is cut: a pair of ';' that starts
\* an even number of characters into its run of ';'
ClaimedCuts(s) ==
    {i \in 1..(Len(s) - 1) :
        /\ s[i] = ";" /\ s[i + 1] = ";"
        /\ \E r \in 1..i :
              /\ \A j \in r..i : s[j] = ";"
              /\ r = 1 \/ s[r - 1] # ";"
              /\ (i - r) % 2 = 0}

\* where a declaration of s starts: at the start of s and after every cut
ClaimedStarts(s) == {1} \cup {i + 2 : i \in ClaimedCuts(s)}

\* the declaration of s that starts at b: it ends before the next cut
ClaimedDecl(s, b) ==
    SubSeq(s, b, IF \E i \in ClaimedCuts(s) : i >= b
                 THEN (CHOOSE i \in ClaimedCuts(s) : i >= b /\ \A j \in ClaimedCuts(s) : j >= b => i <= j) - 1
                 ELSE Len(s))

\* position of the first ':' of d followed by ' ', 0 when there is none
FirstColonSpace(d) ==
    IF \E i \in 1..(Len(d) - 1) : d[i] = ":" /\ d[i + 1] = " "
    THEN CHOOSE i \in 1..(Len(d) - 1) :
            /\ d[i] = ":" /\ d[i + 1] = " "
            /\ \A j \in 1..(i - 1) : ~(d[j] = ":" /\ d[j + 1] = " ")
    ELSE 0

\* s without the spaces at its ends
Trimmed(s) ==
    CHOOSE t \in {SubSeq(s, i, j) : i \in 1..(Len(s) + 1), j \in 0..Len(s)} :
        /\ \E i \in 1..(Len(s) + 1), j \in 0..Len(s) :
              /\ t = SubSeq(s, i, j)
              /\ \A k \in 1..Len(s) : (k < i \/ k > j) => s[k] = " "
        /\ t # EmptyStr => (t[1] # " " /\ t[Len(t)] # " ")

\* the name of a declaration with a colon: what precedes its first ": ", or
\* its first ':' when it has no ": ", trimmed
ClaimedName(d) ==
    Trimmed(SubSeq(d, 1, (IF FirstColonSpace(d) > 0 THEN FirstColonSpace(d) ELSE IndexAny(d, {":"})) - 1))

\* the value of a declaration with a colon: what follows that separator,
\* trimmed
ClaimedValue(d) ==
    Trimmed(SubSeq(d, IF FirstColonSpace(d) > 0 THEN FirstColonSpace(d) + 2 ELSE IndexAny(d, {":"}) + 1, Len(d)))

\* the starts of the declarations of s that hold a colon
ClaimedHeaders(s) == {b \in ClaimedStarts(s) : ":" \in Range(ClaimedDecl(s, b))}

\* the mapping C12 describes: a name maps to the value of the last
\* declaration with that name
ClaimedMapping(s) ==
    [n \in {ClaimedName(ClaimedDecl(s, b)) : b \in ClaimedHeaders(s)} |->
        ClaimedValue(ClaimedDecl(s,
            CHOOSE b \in ClaimedHeaders(s) :
                /\ ClaimedName(ClaimedDecl(s, b)) = n
                /\ \A c \in ClaimedHeaders(s) : ClaimedName(ClaimedDecl(s, c)) = n => c <= b))]

\* C12: parseHeaders returns the empty mapping without error for "", fails
\* for a non-empty string without ':', and otherwise returns, without error,
\* the mapping obtained by cutting the string at ";;", cutting every
\* declaration at its first ": " (or else its first ':'), skipping the
\* declarations without colon, trimming name and value, a later declaration
\* of a name replacing an earlier one; "Cookie: a=b;;Referer: http://x/"
\* gives Cookie -> a=b, Referer -> http://x/.
C12_ParseHeaders ==
    mainpc \in {"parsed", "failed"} =>
        /\ flags.rawHeaders = EmptyStr =>
              mainpc = "parsed" /\ ~headers.isNil /\ headers.map = EmptyMap
        /\ Malformed(flags.rawHeaders) => mainpc = "failed"
        /\ (flags.rawHeaders # EmptyStr /\ ~Malformed(flags.rawHeaders)) =>
              /\ mainpc = "parsed"
              /\ ~headers.isNil
              /\ headers.map = ClaimedMapping(flags.rawHeaders)
        /\ flags.rawHeaders = CookieExample =>
              /\ DOMAIN headers.map = { <<"C","o","o","k","i","e">>, <<"R","e","f","e","r","e","r">> }
              /\ headers.map[<<"C","o","o","k","i","e">>] = <<"a","=","b">>
              /\ headers.map[<<"R","e","f","e","r","e","r">>] = <<"h","t","t","p",":","/","/","x","/">>

\* parseHeaders has returned a mapping for a string with two declarations of
\* one name and different values: the name maps to the later value
C12_Witness ==
    /\ mainpc = "parsed"
    /\ \E b, c \in ClaimedHeaders(flags.rawHeaders) :
          /\ b < c
          /\ ClaimedName(ClaimedDecl(flags.rawHeaders, b)) = ClaimedName(ClaimedDecl(flags.rawHeaders, c))
          /\ ClaimedValue(ClaimedDecl(flags.rawHeaders, b)) # ClaimedValue(ClaimedDecl(flags.rawHeaders, c))
          /\ headers.map[ClaimedName(ClaimedDecl(flags.rawHeaders, c))]
                = ClaimedValue(ClaimedDecl(flags.rawHeaders, c))

\* the first Len(results) slots of the returned array hold the results in order
CArrayHoldsResults ==
    /\ Len(cArray) = Len(results) + 1
    /\ \A i \in 1..Len(results) : cArray[i] = CString(results[i])

\* C13: the array CStartCrawler returns for a crawl with n results holds the
\* n results in order in its slots 0..n-1 and the null pointer in slot n.
C13_NulTerminated ==
    mainpc = "creturned" =>
        /\ CArrayHoldsResults
        /\ cArray[Len(results) + 1] = NullPtr

\* a fetch of the running crawl has failed
SomeFetchFailed ==
    mainpc = "wait" /\ \E u \in DOMAIN tasks : tasks[u].got = "error"

\* within a crawl, the goroutine of a failed fetch does nothing more
FailedStaysDone ==
    crawlNo' = crawlNo =>
        \A u \in DOMAIN tasks : tasks[u].got = "error" => tasks'[u] = tasks[u]

\* C14: a failed fetch is absorbed: its goroutine is done, is never started
\* again and ran no callback (it adds nothing to the results); the crawl is
\* not aborted: when StartCrawler returns, every other started fetch was
\* sent, and after a failure StartCrawler does return.
C14_FailedFetchAbsorbed ==
    /\ [][FailedStaysDone]_vars
    /\ [](\A u \in DOMAIN tasks : tasks[u].got = "error" => tasks[u].pc = "done" /\ tasks[u].idx = 0)
    /\ [](mainpc = "returned" => \A u \in DOMAIN tasks : tasks[u].got # "pending")
    /\ SomeFetchFailed ~> (mainpc = "returned")

\* a crawl in which the fetch of /q failed has returned: the other pages were
\* fetched and their links recorded
C14_Witness ==
    /\ mainpc = "returned"
    /\ url = U_R
    /\ {U_R, U_Q, U_S} \subseteq DOMAIN tasks
    /\ tasks[U_Q].got = "error"
    /\ tasks[U_R].got = "html"
    /\ tasks[U_S].got = "html"
    /\ U_K \in Range(results)

\* the pages whose OnHTML callbacks have run or are running
FetchedPages == {u \in DOMAIN tasks : tasks[u].got = "html"}

\* C15 as stated: every element of the result list is a non-empty absolute
\* URL, with a scheme and a host.
C15_AbsoluteWithHost ==
    \A r \in Range(results) :
        /\ r # EmptyStr
        /\ ParseURL(r).scheme # EmptyStr
        /\ ParseURL(r).host # EmptyStr

\* C15 amended: every element of the result list is non-empty, has a scheme
\* and is the resolution of an href, src or action of a fetched page against
\* the URL of that page; a reference whose resolution gives "" is never
\* appended.  (The element has no host when the reference is of the kind
\* mailto:x.)
C15_NonEmptyWithScheme ==
    \A r \in Range(results) :
        /\ r # EmptyStr
        /\ ParseURL(r).scheme # EmptyStr
        /\ \E u \in FetchedPages : r \in PageLinks(u)

\* a crawl of a.b has returned after the callbacks of page /p ran: its
\* reference mailto:x is in the list, its references "#" and "http://a b",
\* which resolve to "", left nothing
C15_Witness ==
    /\ mainpc = "returned"
    /\ url = U_A
    /\ U_B \in FetchedPages
    /\ AbsoluteURL(<<"#">>, U_B) = EmptyStr
    /\ AbsoluteURL(BADREF, U_B) = EmptyStr
    /\ MAILTO \in Range(results)
    /\ ParseURL(MAILTO).host = EmptyStr
    /\ Range(results) \subseteq PageLinks(U_A) \cup PageLinks(U_B)

\* StartCrawler has returned to its caller
Returned == mainpc \in {"returned", "creturned", "scan", "exit"}

\* no step taken after the return, up to the next call, changes the list
ResultsFrozen == (Returned /\ crawlNo' = crawlNo) => results' = results

\* C16: StartCrawler is synchronous: from the moment it has returned until it
\* is called again, every fetch goroutine has ended (no fetch is in flight
\* or queued, no callback is running), and the returned list does not
\* change; so no goroutine of a crawl runs during the next crawl.
C16_Synchronous ==
    /\ [](Returned => \A u \in DOMAIN tasks : tasks[u].pc = "done")
    /\ [][ResultsFrozen]_vars

\* StartCrawler has returned from a crawl in which two fetches were in
\* flight at the same time and callbacks appended to the list
C16_Witness ==
    /\ mainpc = "returned"
    /\ flags.threads = 2
    /\ Cardinality(DOMAIN tasks) >= 3
    /\ Len(results) >= 3
    /\ \A u \in DOMAIN tasks : tasks[u].pc = "done"

\* the script[src] and form[action] elements of the fetched pages whose
\* callback has run
ProcessedOthers ==
    {p \in UNION {{<<u, i>> : i \in 1..Len(Elements(u))} : u \in DOMAIN tasks} :
        /\ Elements(p[1])[p[2]].kind # "a"
        /\ Processed(p[1], p[2])}

\* only a[href] elements make fetch targets: every request but the seed's
\* was made for an a[href] whose callback ran, and a URL that is a src or
\* action and no href of a fetched page is not requested
OnlyAnchorsFollowed ==
    /\ \A u \in DOMAIN tasks : u # url => \E p \in ProcessedAnchors : Target(p) = u
    /\ \A p \in ProcessedOthers :
          (Target(p) # url /\ ~\E q \in ProcessedAnchors : Target(q) = Target(p))
          => (Target(p) \notin DOMAIN tasks /\ Target(p) \notin visited)

\* C17: a URL found only as a script src or a form action is recorded in the
\* result list if isUnique returned true for it, and is never enqueued or
\* fetched; only a[href] elements make fetch targets.
C17_ScriptFormRecordedNotFollowed ==
    Crawling =>
        /\ OnlyAnchorsFollowed
        /\ mainpc = "returned" =>
              \A p \in ProcessedOthers :
                  Wins(Target(p)) > 0 => Target(p) \in Range(results)

\* a step of the a[href] callback of page u that makes a new fetch target is
\* taken for a link the same callback appended to the list
EnqueuedOnlyIfAppended ==
    \A u \in DOMAIN tasks :
        (/\ crawlNo' = crawlNo
         /\ tasks[u].pc = "visit"
         /\ tasks'[u] # tasks[u]
         /\ DOMAIN tasks' # DOMAIN tasks)
        => tasks[u].app

\* C18 as stated: an a[href] is made a fetch target only when the call of
\* appendResult for it appended its URL (the URL was not in the VisitedSet);
\* an href whose URL was already seen is not enqueued.
C18_EnqueuedOnlyWhenAppended == [][EnqueuedOnlyIfAppended]_vars

\* C18 amended: every a[href] is handed to the collector, whether or not
\* appendResult appended it: only a non-empty URL named by an a[href] is made
\* a fetch target, and every a[href] whose URL is non-empty, in scope and
\* within the depth limit is marked in the collector's own visited store
\* (and so was made a fetch target by this or an earlier Visit), also when
\* the VisitedSet already held it.
C18_VisitedWhateverAppended ==
    Crawling =>
        /\ \A u \in DOMAIN tasks :
              u # url => (u # EmptyStr /\ \E p \in ProcessedAnchors : Target(p) = u)
        /\ \A p \in ProcessedAnchors :
              (/\ Target(p) # EmptyStr
               /\ Allowed(Target(p))
               /\ ~ErrMaxDepth(flags.depth, ChildDepth(tasks[p[1]].depth)))
              => (Target(p) \in visited /\ Target(p) \in DOMAIN tasks)

\* the second crawl of a.b has returned: every link was in the VisitedSet
\* already, nothing was appended, and page /p was enqueued and fetched
C18_Witness ==
    /\ mainpc = "returned"
    /\ crawlNo = 2
    /\ url = U_A
    /\ wins = NoTasks
    /\ results = << >>
    /\ U_B \in sm
    /\ U_B \in FetchedPages

\* C19: the returned list is ordered as the calls of isUnique returned true:
\* it holds the URLs isUnique returned true for, in that order.
C19_OrderOfFirstDiscovery ==
    mainpc = "returned" => results = winOrder

\* C20: no append is lost: every URL isUnique returned true for during a
\* crawl is in the list StartCrawler returns.
C20_NoLostAppend ==
    mainpc = "returned" => Range(winOrder) \subseteq Range(results)

=============================================================================
